---- MODULE Spec2Model ----
(***************************************************************************)
(* Verification model of the pymunk / easymunk binding layer:              *)
(*   - easymunk/mat22.py          2x2 matrix helper (pure functions)       *)
(*   - easymunk/pyglet/draw_options.py  pyglet debug-draw adapter          *)
(*   - pymunk/constraint.py       joint classes over native handles        *)
(*                                                                         *)
(* Numbers are modelled by their mathematical value (Python compares int   *)
(* and float by value, and every value met within the bounds is exactly    *)
(* representable).  A Python object is a record [type, id, val]: `type' is *)
(* type(obj).__name__, `id' its identity (0 for an object built by the     *)
(* operation under study, distinct from every input object) and `val' its  *)
(* numeric content, flattened to a sequence.                               *)
(***************************************************************************)
EXTENDS Integers, Sequences, FiniteSets, TLC

\* ---------------------------------------------------------------- bounds
MaxEntry == 2      \* matrix entries of self range over -MaxEntry..MaxEntry
MaxArg == 1        \* entries of the second operand of a binary operation
MaxRatio == 2      \* interpolation ratios 0..MaxRatio
MaxBatches == 2    \* pyglet Batch objects, the caller's included
MaxDraws == 1      \* draw() calls on one batch
MaxDrawCalls == 2  \* draw_* calls on the adapter
MaxRadius == 1     \* radii -1..MaxRadius
MaxVerts == 2      \* polygon vertices 0..MaxVerts
MaxJoints == 1     \* constraint objects constructed in one run
MaxSets == 1       \* property assignments in one run
MaxVal == 1        \* values assigned to a property 1..MaxVal
MaxPropJoints == 2 \* constraint objects alive while properties are assigned

Entries == (0 - MaxEntry)..MaxEntry
ArgEntries == (0 - MaxArg)..MaxArg
Mats == {<<a, b, c, d>> : a \in Entries, b \in Entries, c \in Entries, d \in Entries}
ArgMats == {<<a, b, c, d>> : a \in ArgEntries, b \in ArgEntries,
                             c \in ArgEntries, d \in ArgEntries}
ArgVecs == {<<x, y>> : x \in ArgEntries, y \in ArgEntries}
Ratios == 0..MaxRatio
QuarterTurns == {0, 1, 2, 3}   \* angle = k * pi/2

\* ------------------------------------------------- arithmetic primitives
Abs(x) == IF x < 0 THEN 0 - x ELSE x

\* Python true division x / y for y # 0, on the inputs where it is exact.
Divides(y, x) == y # 0 /\ \E q \in (0 - Abs(x))..Abs(x) : q * y = x
TrueDiv(x, y) == CHOOSE q \in (0 - Abs(x))..Abs(x) : q * y = x

\* easymunk.math.sqrt / cos / sin, on the inputs where they are exact.
IsSquare(n) == n >= 0 /\ \E s \in 0..n : s * s = n
sqrt(n) == CHOOSE s \in 0..n : s * s = n
cos(k) == CASE k % 4 = 0 -> 1 [] k % 4 = 1 -> 0 [] k % 4 = 2 -> 0 - 1 [] OTHER -> 0
sin(k) == CASE k % 4 = 0 -> 0 [] k % 4 = 1 -> 1 [] k % 4 = 2 -> 0 [] OTHER -> 0 - 1

\* ------------------------------------------------------- Python objects
PyObj(t, i, v) == [type |-> t, id |-> i, val |-> v]
PyMat(m, i) == PyObj("Mat22", i, m)
PyReal(r) == PyObj("Real", 0, <<r>>)
PyVec(v) == PyObj("Vec2d", 0, v)
PyNone == PyObj("NoneType", 0, <<>>)
NotImplemented == PyObj("NotImplementedType", 0, <<>>)
Raise(exc) == PyObj(exc, 0, <<>>)
Exceptions == {"TypeError", "ValueError", "ZeroDivisionError", "IndexError",
               "AttributeError", "Exception"}
IsRaise(o) == o.type \in Exceptions

\* ------------------------------------------------------------- Mat22
Mat22(a, b, c, d) == <<a, b, c, d>>
Vec2d(x, y) == <<x, y>>

scale(scale_x, scale_y) == Mat22(scale_x, 0, 0, scale_y)
identity == scale(1, 1)
rotation(angle) == Mat22(cos(angle), sin(angle), 0 - sin(angle), cos(angle))

trace(self) == self[1] + self[4]
determinant(self) == self[1] * self[4] - self[2] * self[3]

\* Complex numbers <<re, im>> for the eigenvalues of a matrix whose
\* discriminant is negative.
Discriminant(self) ==
    self[4] * self[4] - 2 * self[1] * self[4] + self[1] * self[1]
        + 4 * self[3] * self[2]

\* eigenvalues with the '-' root returned first.
eigenvalues_minus_first(self) ==
    LET a == self[1]
        d == self[4]
        disc == Discriminant(self)
        aux == IF disc >= 0 THEN <<sqrt(disc), 0>> ELSE <<0, sqrt(0 - disc)>>
    IN  << <<TrueDiv(d + a - aux[1], 2), TrueDiv(0 - aux[2], 2)>>,
           <<TrueDiv(d + a + aux[1], 2), TrueDiv(aux[2], 2)>> >>

eigenvalues(self) ==
    LET a == self[1]
        d == self[4]
        disc == Discriminant(self)
        aux == IF disc >= 0 THEN <<sqrt(disc), 0>> ELSE <<0, sqrt(0 - disc)>>
    IN  << <<TrueDiv(d + a + aux[1], 2), TrueDiv(aux[2], 2)>>,
           <<TrueDiv(d + a - aux[1], 2), TrueDiv(0 - aux[2], 2)>> >>

__add__(self, other) ==
    Mat22(self[1] + other[1], self[2] + other[2],
          self[3] + other[3], self[4] + other[4])

_real_mul(self, other) ==
    LET r == other    \* float(other): same value
    IN  Mat22(self[1] * r, self[2] * r, self[3] * r, self[4] * r)

_mat_mul(self, other) ==
    LET a == self[1]
        b == self[2]
        c == self[3]
        d == self[4]
        x == other[1]
        y == other[2]
        z == other[3]
        w == other[4]
    IN  Mat22(a * x + b * z, a * y + b * w, c * x + b * z, c * y + d * w)

transform_vector(self, vec) ==
    LET x == vec[1]
        y == vec[2]
    IN  Vec2d(self[1] * x + self[3] * y, self[2] * x + self[4] * y)

\* Operands and results of the dispatching operators are Python objects.
__matmul__(self, other) ==
    IF other.type = "Mat22" THEN PyMat(_mat_mul(self.val, other.val), 0)
    ELSE NotImplemented

__mul__(self, other) ==
    IF other.type = "Mat22" THEN PyMat(_mat_mul(self.val, other.val), 0)
    ELSE IF other.type = "Real" THEN PyMat(_real_mul(self.val, other.val[1]), 0)
    ELSE IF other.type = "Vec2d" THEN PyVec(transform_vector(self.val, other.val))
    ELSE NotImplemented

rows(self) == <<Vec2d(self[1], self[3]), Vec2d(self[2], self[4])>>
cols(self) == <<Vec2d(self[1], self[2]), Vec2d(self[3], self[4])>>

\* as_mat2(obj).  A "tuple"/"list" object whose val has length 4 is the
\* nested pair ((a, b), (c, d)); a shorter val is a flat sequence of
\* numbers, on which the nested unpacking fails.
\* as_mat2 without the final raise: the function falls off its end.
as_mat2_no_raise(obj) ==
    IF obj.type = "Mat22" THEN obj
    ELSE IF obj.type \in {"tuple", "list"} THEN
        IF Len(obj.val) = 4
        THEN PyMat(Mat22(obj.val[1], obj.val[2], obj.val[3], obj.val[4]), 0)
        ELSE IF Len(obj.val) = 2 THEN Raise("TypeError")
        ELSE Raise("ValueError")
    ELSE PyNone

as_mat2(obj) ==
    IF obj.type = "Mat22" THEN obj
    ELSE IF obj.type \in {"tuple", "list"} THEN
        IF Len(obj.val) = 4
        THEN PyMat(Mat22(obj.val[1], obj.val[2], obj.val[3], obj.val[4]), 0)
        ELSE IF Len(obj.val) = 2 THEN Raise("TypeError")
        ELSE Raise("ValueError")
    ELSE Raise("TypeError")

\* interpolate_to with the two weights exchanged.
interpolate_to_swapped(self, other, ratio) ==
    LET o == as_mat2(other)
    IN  IF IsRaise(o) THEN o
        ELSE PyMat(__add__(__mul__(self, PyReal(ratio)).val,
                           __mul__(o, PyReal(1 - ratio)).val), 0)

interpolate_to(self, other, ratio) ==
    LET o == as_mat2(other)
    IN  IF IsRaise(o) THEN o
        ELSE PyMat(__add__(__mul__(self, PyReal(1 - ratio)).val,
                           __mul__(o, PyReal(ratio)).val), 0)

inverse(self) ==
    LET det == determinant(self)
    IN  Mat22(TrueDiv(self[4], det), TrueDiv(0 - self[2], det),
              TrueDiv(0 - self[3], det), TrueDiv(self[1], det))

rotate(self, angle) ==
    LET a == self[1]
        b == self[2]
        d == self[4]
        c == cos(angle)      \* rebinds c: the matrix entry self[3] is lost
        s == sin(angle)
        cs == c * s
        c2 == c * c
    IN  Mat22((a - d) * c2 + d - cs * (b + c),
              (c - b) * c2 - c + cs * (a + d),
              (c + b) * c2 - b + cs * (a - d),
              (d - a) * c2 + a + cs * (b + c))

\* Vec2d.normalized(): the unit vector v / |v|, kept symbolically as
\* <<x, y, |v|^2>> (the direction and the squared length it is divided by).
normalized(v) == <<v[1], v[2], v[1] * v[1] + v[2] * v[2]>>

\* eigenvectors, for a matrix with real eigenvalues.  The result is a
\* raised exception or the tuple (v1.normalized(), v2.normalized()),
\* flattened.
eigenvectors(self) ==
    LET ev == eigenvalues(self)
        l1 == ev[1][1]
        l2 == ev[2][1]
        a == self[1]
        c == self[3]
    IN  IF l1 - a = 0 \/ l2 - a = 0 THEN Raise("ZeroDivisionError")
        ELSE PyObj("tuple", 0,
                   normalized(Vec2d(TrueDiv(c, l1 - a), 1))
                       \o normalized(Vec2d(TrueDiv(c, l2 - a), 1)))

\* ------------------------------------------------------------ variables
VARIABLES
    M, op, arg, res,                      \* Mat22: self, call, argument, result
    new_batch, batch, user_batch,         \* DrawOptions attributes, kwargs
    contents, draws, n_batches,           \* pyglet batches
    draw_call, draw_exc, n_draw, n_added, \* last call, its exception, counts
    cp_loaded, joints, handles,           \* constraint.py objects, native heap
    body_constraints, n_sets,             \* Body._constraints, setter calls
    jlast                                 \* the last call on a joint

matVars == <<M, op, arg, res>>
drawVars == <<new_batch, batch, user_batch, contents, draws, n_batches,
              draw_call, draw_exc, n_draw, n_added>>
jointVars == <<cp_loaded, joints, handles, body_constraints, n_sets, jlast>>
vars == <<matVars, drawVars, jointVars>>

\* ------------------------------------------------- idle values of a part
DrawIdle ==
    /\ new_batch = FALSE /\ batch = 0 /\ user_batch = 0
    /\ contents = <<>> /\ draws = <<>> /\ n_batches = 0
    /\ draw_call = "" /\ draw_exc = "" /\ n_draw = 0 /\ n_added = 0
JointIdle ==
    /\ cp_loaded = TRUE /\ joints = <<>> /\ handles = <<>>
    /\ body_constraints = <<>> /\ n_sets = 0 /\ jlast = <<>>
MatIdle ==
    /\ M = Mat22(0, 0, 0, 0) /\ op = "idle" /\ arg = <<>> /\ res = PyNone

\* ------------------------------------------------- Mat22 state machine
\* Init draws self; each action is one call on it, recorded in op/arg/res.
MatInit == M \in Mats /\ op = "init" /\ arg = <<>> /\ res = PyNone

Call(name, args, result) ==
    /\ op' = name /\ arg' = args /\ res' = result
    /\ UNCHANGED <<M, drawVars, jointVars>>

Self == PyMat(M, 1)

\* The operands a caller can pass for `other'.
OtherMats == {PyMat(n, 2) : n \in ArgMats}
\* Operands of interpolate_to: a Mat22 or a nested pair ((a, b), (c, d)).
LerpEntries == 0..MaxArg
LerpVals == {<<a, b, c, d>> : a \in LerpEntries, b \in LerpEntries,
                              c \in LerpEntries, d \in LerpEntries}
LerpMats == {PyMat(n, 2) : n \in LerpVals}
LerpNested == {PyObj(t, 2, n) : t \in {"tuple", "list"}, n \in LerpVals}
OtherReals == {PyReal(r) : r \in ArgEntries}
OtherVecs == {PyVec(v) : v \in ArgVecs}
OtherFlat == {PyObj(t, 2, v) : t \in {"tuple", "list"}, v \in {<<1, 2>>, <<1, 2, 3>>}}
OtherMisc == {PyNone, PyObj("str", 2, <<>>), PyObj("dict", 2, <<>>)}

Identity ==
    /\ op = "init"
    /\ Call("identity", <<>>, PyMat(identity, 0))

Rotation ==
    /\ op = "init"
    /\ \E t \in QuarterTurns :
          Call("rotation", <<PyReal(t)>>, PyMat(rotation(t), 0))

Eigenvalues ==
    /\ op = "init"
    /\ IsSquare(Abs(Discriminant(M)))
    /\ LET ev == eigenvalues(M)
       IN  Call("eigenvalues", <<>>, PyObj("tuple", 0, ev[1] \o ev[2]))

\* The quotients c / (l - a) that eigenvectors forms are exact.
EigenvectorsExact(m) ==
    /\ IsSquare(Discriminant(m))
    /\ LET ev == eigenvalues(m)
       IN  \/ ev[1][1] = m[1]
           \/ ev[2][1] = m[1]
           \/ Divides(ev[1][1] - m[1], m[3]) /\ Divides(ev[2][1] - m[1], m[3])

Eigenvectors ==
    /\ op = "init"
    /\ EigenvectorsExact(M)
    /\ Call("eigenvectors", <<>>, eigenvectors(M))

MatMul ==
    /\ op = "init"
    /\ \E o \in OtherMats \cup OtherReals \cup OtherMisc :
          Call("__matmul__", <<o>>, __matmul__(Self, o))

Mul ==
    /\ op = "init"
    /\ \E o \in OtherMats \cup OtherReals \cup OtherVecs \cup OtherMisc :
          Call("__mul__", <<o>>, __mul__(Self, o))

Rows ==
    /\ op = "init"
    /\ Call("rows", <<>>, PyObj("generator", 0, rows(M)[1] \o rows(M)[2]))

Cols ==
    /\ op = "init"
    /\ Call("cols", <<>>, PyObj("generator", 0, cols(M)[1] \o cols(M)[2]))

InterpolateTo ==
    /\ op = "init"
    /\ M \in ArgMats
    /\ \E o \in LerpMats \cup LerpNested \cup OtherFlat \cup OtherMisc, r \in Ratios :
          Call("interpolate_to", <<o, PyReal(r)>>, interpolate_to(Self, o, r))

\* The quotients of inverse() are exact, or the determinant is zero and
\* the first division raises.
InverseExact(m) ==
    \/ determinant(m) = 0
    \/ \A i \in 1..4 : Divides(determinant(m), m[i])

Inverse ==
    /\ op = "init"
    /\ InverseExact(M)
    /\ Call("inverse", <<>>,
            IF determinant(M) = 0 THEN Raise("ZeroDivisionError")
            ELSE PyMat(inverse(M), 0))

Rotate ==
    /\ op = "init"
    /\ \E t \in QuarterTurns :
          Call("rotate", <<PyReal(t)>>, PyMat(rotate(M, t), 0))

TransformVector ==
    /\ op = "init"
    /\ \E v \in ArgVecs :
          Call("transform_vector", <<PyVec(v)>>, PyVec(transform_vector(M, v)))

AsMat2 ==
    /\ op = "init"
    /\ \E o \in {Self} \cup {PyObj(t, 2, M) : t \in {"tuple", "list"}}
                \cup OtherFlat \cup OtherReals \cup OtherMisc :
          Call("as_mat2", <<o>>, as_mat2(o))

MatNext ==
    \/ Identity \/ Rotation \/ Eigenvalues \/ Eigenvectors
    \/ MatMul \/ Mul \/ Rows \/ Cols \/ InterpolateTo
    \/ Inverse \/ Rotate \/ TransformVector \/ AsMat2

Init == MatInit /\ DrawIdle /\ JointIdle
Next == MatNext
Spec == Init /\ [][Next]_vars

\* ------------------------------------------------------ Mat22 properties
\* The standard product of the matrices with rows (a, b), (c, d) and
\* (x, y), (z, w).
StdProduct(m, n) ==
    <<m[1] * n[1] + m[2] * n[3], m[1] * n[2] + m[2] * n[4],
      m[3] * n[1] + m[4] * n[3], m[3] * n[2] + m[4] * n[4]>>

\* C1: for every M with non-zero determinant, M.inverse() * M equals
\* Mat22.identity() = Mat22(1, 0, 0, 1).
C1_InverseTimesSelfIsIdentity ==
    (op = "inverse" /\ res.type = "Mat22")
        => __mul__(res, Self) = PyMat(Mat22(1, 0, 0, 1), 0)

\* C2: M * N and M @ N are the standard matrix product (so that
\* identity * M = M and M * identity = M).
C2_MulIsStandardProduct ==
    (op \in {"__mul__", "__matmul__"} /\ arg[1].type = "Mat22")
        => res = PyMat(StdProduct(M, arg[1].val), 0)

\* C3: M.rotate(t) is R * M * R.inverse() with R = Mat22.rotation(t),
\* whether the product is the one __mul__ computes or the standard one.
C3_RotateIsConjugation ==
    op = "rotate" =>
        LET R == rotation(arg[1].val[1])
        IN  \/ res = __mul__(__mul__(PyMat(R, 0), Self), PyMat(inverse(R), 0))
            \/ res.val = StdProduct(StdProduct(R, M), inverse(R))

\* C4: rows() yields Vec2d(a, b) then Vec2d(c, d); cols() yields
\* Vec2d(a, c) then Vec2d(b, d).
C4_RowsAndCols ==
    /\ op = "rows" => res.val = <<M[1], M[2], M[3], M[4]>>
    /\ op = "cols" => res.val = <<M[1], M[3], M[2], M[4]>>

\* C5: M.interpolate_to(N, 0) is a matrix equal to M and
\* M.interpolate_to(N, 1) is a matrix equal to N, for N a Mat22 or a
\* nested pair ((a, b), (c, d)).
C5_InterpolateEndpoints ==
    (/\ op = "interpolate_to"
     /\ arg[1].type \in {"Mat22", "tuple", "list"}
     /\ Len(arg[1].val) = 4)
        => /\ res.type = "Mat22"
           /\ arg[2].val[1] = 0 => res.val = M
           /\ arg[2].val[1] = 1 => res.val = arg[1].val

C5_Witness ==
    /\ op = "interpolate_to"
    /\ arg[1].type = "tuple" /\ Len(arg[1].val) = 4
    /\ arg[2].val[1] = 1
    /\ arg[1].val # M
    /\ res = PyMat(arg[1].val, 0)

\* C6: the two eigenvalues sum to the trace a + d and multiply to the
\* determinant a*d - b*c, and the first is the one with the '+' square
\* root of the discriminant (a - d)^2 + 4*b*c (of its negation, times i,
\* when the discriminant is negative).
C6_EigenvaluesSumAndProduct ==
    op = "eigenvalues" =>
        LET re1 == res.val[1]
            im1 == res.val[2]
            re2 == res.val[3]
            im2 == res.val[4]
            disc == (M[1] - M[4]) * (M[1] - M[4]) + 4 * M[2] * M[3]
        IN  /\ re1 + re2 = M[1] + M[4] /\ im1 + im2 = 0
            /\ re1 * re2 - im1 * im2 = M[1] * M[4] - M[2] * M[3]
            /\ re1 * im2 + im1 * re2 = 0
            /\ re1 - re2 >= 0 /\ im1 - im2 >= 0
            /\ (re1 - re2) * (re1 - re2) - (im1 - im2) * (im1 - im2) = disc

C6_Witness ==
    /\ op = "eigenvalues"
    /\ M[2] # 0 /\ M[3] # 0
    /\ res.val[1] > res.val[3]
    /\ res.val[2] = 0

\* C7: for every M with real eigenvalues, diagonal matrices and matrices
\* with c = 0 included, eigenvectors returns, without raising, two
\* non-zero vectors v1, v2 with M.transform_vector(v_i) = l_i * v_i.
C7_EigenvectorsReturned ==
    op = "eigenvectors" =>
        /\ ~IsRaise(res)
        /\ LET ev == eigenvalues(M)
               v1 == <<res.val[1], res.val[2]>>
               v2 == <<res.val[4], res.val[5]>>
           IN  /\ v1 # <<0, 0>> /\ v2 # <<0, 0>>
               /\ res.val[3] > 0 /\ res.val[6] > 0
               /\ transform_vector(M, v1) = <<ev[1][1] * v1[1], ev[1][1] * v1[2]>>
               /\ transform_vector(M, v2) = <<ev[2][1] * v2[1], ev[2][1] * v2[2]>>

\* C8: as_mat2 returns the very same object for a Mat22, Mat22(a, b, c, d)
\* for a tuple or list ((a, b), (c, d)), raises TypeError for an argument
\* of any other type, and never returns None.
C8_AsMat2 ==
    op = "as_mat2" =>
        /\ arg[1].type = "Mat22" => res = arg[1]
        /\ (arg[1].type \in {"tuple", "list"} /\ Len(arg[1].val) = 4)
               => res.type = "Mat22" /\ res.val = arg[1].val
        /\ arg[1].type \notin {"Mat22", "tuple", "list"} => res.type = "TypeError"
        /\ res.type # "NoneType"

C8_Witness ==
    /\ op = "as_mat2"
    /\ arg[1].type = "str"
    /\ res.type = "TypeError"

\* ------------------------------------------- pyglet DrawOptions adapter
\* A batch is named by a number 1..MaxBatches; batch = 0 is the state in
\* which the attribute self.batch was never assigned.  contents[b] is the
\* sequence of primitives batch.add received, draws[b] the number of
\* draw() calls DrawOptions made on b, n_added the number of batch.add
\* calls DrawOptions made in all.
Batches == 1..MaxBatches
Radii == (0 - 1)..MaxRadius
Prim(mode, group) == <<mode, group>>

\* __init__(**kwargs), with or without the batch keyword.
DrawInit ==
    /\ \/ new_batch = FALSE /\ batch = 1 /\ user_batch = 1 /\ n_batches = 1
       \/ new_batch = TRUE /\ batch = 0 /\ user_batch = 0 /\ n_batches = 0
    /\ contents = [b \in Batches |-> <<>>]
    /\ draws = [b \in Batches |-> 0]
    /\ draw_call = "__init__" /\ draw_exc = "" /\ n_draw = 0 /\ n_added = 0

\* The primitives a draw_* call adds, or the exception it raises before
\* the first batch.add, as [exc, adds].
Added(prims) == [exc |-> "", adds |-> prims]
Fails(exc) == [exc |-> exc, adds |-> <<>>]

\* num_segments = int(4 * sqrt(radius)); theta = 2 * pi / num_segments
circle_prims(radius) ==
    IF radius < 0 THEN Fails("ValueError")
    ELSE IF radius = 0 THEN Fails("ZeroDivisionError")
    ELSE Added(<<Prim("GL_TRIANGLE_STRIP", "OrderedGroup(0)"),
                 Prim("GL_LINES", "OrderedGroup(1)")>>)

segment_prims == Added(<<Prim("GL_LINES", "None")>>)

fat_segment_prims(radius) ==
    LET r == IF radius > 1 THEN radius ELSE 1     \* max(radius, 1)
    IN  Added(<<Prim("GL_TRIANGLES", "None")>>
              \o circle_prims(r).adds \o circle_prims(r).adds)

RECURSIVE Repeat(_, _)
Repeat(seq, n) == IF n = 0 THEN <<>> ELSE seq \o Repeat(seq, n - 1)

polygon_prims(nverts, radius) ==
    IF nverts = 0 THEN Fails("IndexError")
    ELSE Added(<<Prim("GL_TRIANGLE_STRIP", "None")>>
               \o (IF radius > 0
                   THEN Repeat(fat_segment_prims(radius).adds, nverts)
                   ELSE <<>>))

dot_prims == Added(<<Prim("GL_POINTS", "_GrPointSize")>>)

\* One draw_* call: every self.batch.add goes to the batch the attribute
\* names at the time; without the attribute the first add raises.
DrawCall(name, r) ==
    /\ n_draw' = n_draw + 1
    /\ draw_call' = name
    /\ IF r.exc # "" THEN
           /\ draw_exc' = r.exc
           /\ UNCHANGED <<contents, n_added>>
       ELSE IF batch = 0 THEN
           /\ draw_exc' = "AttributeError"
           /\ UNCHANGED <<contents, n_added>>
       ELSE
           /\ draw_exc' = ""
           /\ contents' = [contents EXCEPT ![batch] = @ \o r.adds]
           /\ n_added' = n_added + Len(r.adds)
    /\ UNCHANGED <<new_batch, batch, user_batch, draws, n_batches, matVars, jointVars>>

Enter ==
    /\ draw_call' = "__enter__" /\ draw_exc' = ""
    /\ IF new_batch THEN
           /\ n_batches < MaxBatches
           /\ n_batches' = n_batches + 1
           /\ batch' = n_batches + 1       \* pyglet.graphics.Batch()
       ELSE UNCHANGED <<n_batches, batch>>
    /\ UNCHANGED <<new_batch, user_batch, contents, draws, n_draw, n_added,
                   matVars, jointVars>>

\* __exit__ drawing the batch whether or not it is the adapter's own.
ExitAlwaysDraws ==
    /\ draw_call' = "__exit__"
    /\ IF batch = 0 THEN draw_exc' = "AttributeError" /\ UNCHANGED draws
       ELSE /\ draws[batch] < MaxDraws
            /\ draws' = [draws EXCEPT ![batch] = @ + 1]
            /\ draw_exc' = ""
    /\ UNCHANGED <<new_batch, batch, user_batch, contents, n_batches, n_draw,
                   n_added, matVars, jointVars>>

Exit ==
    /\ draw_call' = "__exit__"
    /\ IF new_batch THEN
           IF batch = 0 THEN draw_exc' = "AttributeError" /\ UNCHANGED draws
           ELSE /\ draws[batch] < MaxDraws
                /\ draws' = [draws EXCEPT ![batch] = @ + 1]
                /\ draw_exc' = ""
       ELSE draw_exc' = "" /\ UNCHANGED draws
    /\ UNCHANGED <<new_batch, batch, user_batch, contents, n_batches, n_draw,
                   n_added, matVars, jointVars>>

DrawCircle ==
    /\ n_draw < MaxDrawCalls
    /\ \E radius \in Radii : DrawCall("draw_circle", circle_prims(radius))

DrawSegment ==
    /\ n_draw < MaxDrawCalls
    /\ DrawCall("draw_segment", segment_prims)

DrawFatSegment ==
    /\ n_draw < MaxDrawCalls
    /\ \E radius \in Radii :
          DrawCall("draw_fat_segment", fat_segment_prims(radius))

DrawPolygon ==
    /\ n_draw < MaxDrawCalls
    /\ \E nverts \in 0..MaxVerts, radius \in Radii :
          DrawCall("draw_polygon", polygon_prims(nverts, radius))

DrawDot ==
    /\ n_draw < MaxDrawCalls
    /\ DrawCall("draw_dot", dot_prims)

DrawNext ==
    \/ Enter \/ Exit
    \/ DrawCircle \/ DrawSegment \/ DrawFatSegment \/ DrawPolygon \/ DrawDot

InitDraw == MatIdle /\ DrawInit /\ JointIdle
SpecDraw == InitDraw /\ [][DrawNext]_vars

\* C9: when DrawOptions is constructed with a batch keyword, the adapter's
\* batch stays that batch over any sequence of __enter__, __exit__ and
\* draw_* calls, every primitive is added to it, and DrawOptions never
\* calls draw() on it.
C9_UserBatchKept ==
    user_batch # 0 =>
        /\ batch = user_batch
        /\ Len(contents[user_batch]) = n_added
        /\ \A b \in Batches : b # user_batch => contents[b] = <<>>
        /\ draws[user_batch] = 0

C9_Witness ==
    /\ user_batch # 0
    /\ draw_call = "__exit__"
    /\ Len(contents[user_batch]) >= 7
    /\ n_added = Len(contents[user_batch])

\* ------------------------------------------- constraint.py joint classes
\* A native handle is named by its allocation number; 0 is NULL (None).
\* handles[h] = [state, type, fields, frees, stale]: `type' is the native
\* struct behind the handle, `fields' its members, `frees' the number of
\* cpConstraintFree calls it received and `stale' whether any foreign call
\* reached it after it was freed.
JointClasses == {"PinJoint", "SlideJoint", "PivotJoint", "GrooveJoint",
                 "DampedSpring", "DampedRotarySpring", "RotaryLimitJoint",
                 "RatchetJoint", "GearJoint", "SimpleMotor"}
JointIds == DOMAIN joints       \* the objects a run may construct
HandleIds == DOMAIN handles     \* the native structs it may allocate
Bodies == {1, 2}
BodyA == CHOOSE x \in Bodies : \A y \in Bodies : x <= y   \* the joints connect
BodyB == CHOOSE x \in Bodies : \A y \in Bodies : x >= y   \* these two bodies
Vals == 1..MaxVal

\* Properties of the base class and of each subclass.
BaseProps == {"max_force", "error_bias", "max_bias", "collide_bodies"}
ReadOnlyProps == {"impulse"}
OwnProps(cls) ==
    CASE cls = "PinJoint" -> {"anchor_a", "anchor_b", "distance"}
      [] cls = "SlideJoint" -> {"anchor_a", "anchor_b", "min", "max"}
      [] cls = "PivotJoint" -> {"anchor_a", "anchor_b"}
      [] cls = "GrooveJoint" -> {"anchor_b", "groove_a", "groove_b"}
      [] cls = "DampedSpring" ->
             {"anchor_a", "anchor_b", "rest_length", "stiffness", "damping"}
      [] cls = "DampedRotarySpring" -> {"rest_angle", "stiffness", "damping"}
      [] cls = "RotaryLimitJoint" -> {"min", "max"}
      [] cls = "RatchetJoint" -> {"angle", "phase", "ratchet"}
      [] cls = "GearJoint" -> {"phase", "ratio"}
      [] cls = "SimpleMotor" -> {"rate"}
      [] OTHER -> {}
Props(cls) == BaseProps \cup ReadOnlyProps \cup OwnProps(cls)

\* The suffix of the accessor pair cp<Type>Get<Suffix> / cp<Type>Set<Suffix>
\* a property forwards to.
Suffix(prop) ==
    CASE prop = "max_force" -> "MaxForce"
      [] prop = "error_bias" -> "ErrorBias"
      [] prop = "max_bias" -> "MaxBias"
      [] prop = "collide_bodies" -> "CollideBodies"
      [] prop = "impulse" -> "Impulse"
      [] prop = "anchor_a" -> "AnchorA"
      [] prop = "anchor_b" -> "AnchorB"
      [] prop = "distance" -> "Dist"
      [] prop = "min" -> "Min"
      [] prop = "max" -> "Max"
      [] prop = "groove_a" -> "GrooveA"
      [] prop = "groove_b" -> "GrooveB"
      [] prop = "rest_length" -> "RestLength"
      [] prop = "rest_angle" -> "RestAngle"
      [] prop = "stiffness" -> "Stiffness"
      [] prop = "damping" -> "Damping"
      [] prop = "angle" -> "Angle"
      [] prop = "phase" -> "Phase"
      [] prop = "ratchet" -> "Ratchet"
      [] prop = "ratio" -> "Ratio"
      [] OTHER -> "Rate"

\* Accessor with the two properties of GearJoint forwarded to one member.
accessor_shared_member(cls, prop) ==
    IF prop \in BaseProps \cup ReadOnlyProps
    THEN [route |-> "ffi", type |-> "Constraint", field |-> Suffix(prop)]
    ELSE IF cls \in {"GearJoint", "SimpleMotor"}
    THEN [route |-> "memory", type |-> cls,
          field |-> IF prop = "ratio" THEN Suffix("phase") ELSE Suffix(prop)]
    ELSE [route |-> "ffi", type |-> cls, field |-> Suffix(prop)]

\* How the getter and setter of cls.prop reach native memory: through the
\* foreign function cp<type>Get/Set<field>(self._constraint, ...), or
\* through the ctypes struct self._dsc (GearJoint, SimpleMotor).
Accessor(cls, prop) ==
    IF prop \in BaseProps \cup ReadOnlyProps
    THEN [route |-> "ffi", type |-> "Constraint", field |-> Suffix(prop)]
    ELSE IF cls \in {"GearJoint", "SimpleMotor"}
    THEN [route |-> "memory", type |-> cls, field |-> Suffix(prop)]
    ELSE [route |-> "ffi", type |-> cls, field |-> Suffix(prop)]

\* Members of the native struct of a joint type.
NativeFields(type) == {Suffix(p) : p \in Props(type)}

NoFields == [f \in {} |-> 0]
NoHandle == [state |-> "unallocated", type |-> "", fields |-> NoFields,
             frees |-> 0, stale |-> FALSE]
NoJoint == [cls |-> "", state |-> "absent", constraint |-> 0 - 1,
            dsc |-> FALSE, a |-> 0, b |-> 0, del_loaded |-> FALSE]
LastCall(call, obj, prop, route, exc, ret) ==
    [call |-> call, obj |-> obj, prop |-> prop, route |-> route,
     exc |-> exc, ret |-> ret]

JointInit ==
    /\ cp_loaded = TRUE
    /\ joints = [j \in 1..MaxJoints |-> NoJoint]
    /\ handles = [h \in 1..MaxJoints |-> NoHandle]
    /\ body_constraints = [x \in Bodies |-> {}]
    /\ n_sets = 0
    /\ jlast = LastCall("", 0, "", "", "", 0)

\* Objects are created in order: the next object is the first absent one.
NextJoint == CHOOSE j \in JointIds :
    joints[j].state = "absent" /\ \A i \in 1..(j - 1) : joints[i].state # "absent"
NextHandle == CHOOSE h \in HandleIds :
    handles[h].state = "unallocated"
        /\ \A i \in 1..(h - 1) : handles[i].state # "unallocated"

\* cp<Type>New(a._body, b._body, ...): a fresh native struct.  Every
\* member starts at the value 0, which stands for what the constructor
\* arguments and the native defaults make it.
cpNew(type) ==
    [state |-> "valid", type |-> type,
     fields |-> [f \in NativeFields(type) |-> 0],
     frees |-> 0, stale |-> FALSE]

\* cpConstraintFree(constraint) on the native heap: NULL is ignored, the
\* struct of a valid handle is released (its members are gone), and a
\* handle already freed is freed again.
cpConstraintFree(hs, h) ==
    IF h = 0 THEN hs
    ELSE IF hs[h].state = "valid"
    THEN [hs EXCEPT ![h].state = "freed", ![h].frees = @ + 1,
                    ![h].type = "", ![h].fields = NoFields]
    ELSE [hs EXCEPT ![h].frees = @ + 1, ![h].stale = TRUE]

\* _set_bodies(a, b)
_set_bodies(bc, self, a, b) ==
    [x \in Bodies |-> IF x \in {a, b} THEN bc[x] \cup {self} ELSE bc[x]]

\* __init__ of every joint class but PivotJoint: the handle comes from
\* cp<Class>New; GearJoint and SimpleMotor keep the struct as self._dsc.
NewJoint ==
    /\ cp_loaded
    /\ \E j \in JointIds : joints[j].state = "absent"
    /\ \E cls \in JointClasses \ {"PivotJoint"} :
          LET j == NextJoint
              h == NextHandle
              a == BodyA
              b == BodyB
          IN  /\ handles' = [handles EXCEPT ![h] = cpNew(cls)]
              /\ joints' = [joints EXCEPT ![j] =
                     [cls |-> cls, state |-> "live", constraint |-> h,
                      dsc |-> cls \in {"GearJoint", "SimpleMotor"},
                      a |-> a, b |-> b, del_loaded |-> FALSE]]
              /\ body_constraints' = _set_bodies(body_constraints, j, a, b)
              /\ jlast' = LastCall("__init__", j, "", "", "", 0)
    /\ UNCHANGED <<cp_loaded, n_sets, matVars, drawVars>>

\* PivotJoint.__init__(a, b, *args): one pivot or two anchors, else the
\* constructor raises before self._constraint is assigned.
NewPivotJoint ==
    /\ cp_loaded
    /\ \E j \in JointIds : joints[j].state = "absent"
    /\ \E nargs \in 0..3 :
          LET j == NextJoint
              h == NextHandle
              a == BodyA
              b == BodyB
          IN  IF nargs \in {1, 2} THEN
                  /\ handles' = [handles EXCEPT ![h] = cpNew("PivotJoint")]
                  /\ joints' = [joints EXCEPT ![j] =
                         [cls |-> "PivotJoint", state |-> "live", constraint |-> h,
                          dsc |-> FALSE, a |-> a, b |-> b, del_loaded |-> FALSE]]
                  /\ body_constraints' = _set_bodies(body_constraints, j, a, b)
                  /\ jlast' = LastCall("__init__", j, "", "", "", 0)
              ELSE
                  /\ joints' = [joints EXCEPT ![j] =
                         [NoJoint EXCEPT !.cls = "PivotJoint", !.state = "failed"]]
                  /\ jlast' = LastCall("__init__", j, "", "", "Exception", 0)
                  /\ UNCHANGED <<handles, body_constraints>>
    /\ UNCHANGED <<cp_loaded, n_sets, matVars, drawVars>>

\* Constraint.__init__(constraint=None): self._constraint = None, then
\* None.contents raises.
NewConstraint ==
    /\ \E j \in JointIds : joints[j].state = "absent"
    /\ joints' = [joints EXCEPT ![NextJoint] =
           [NoJoint EXCEPT !.cls = "Constraint", !.state = "failed",
                           !.constraint = 0]]
    /\ jlast' = LastCall("__init__", NextJoint, "", "", "AttributeError", 0)
    /\ UNCHANGED <<cp_loaded, handles, body_constraints, n_sets,
                   matVars, drawVars>>

\* A foreign accessor cp<type>Get/Set<field> applied to handle h: the
\* native library asserts the handle's type.
NativeOk(hs, h, acc) ==
    /\ h \in HandleIds
    /\ hs[h].state = "valid"
    /\ acc.type \in {"Constraint", hs[h].type}
    /\ acc.field \in DOMAIN hs[h].fields

\* The value the getter of self.prop returns from the native heap hs:
\* cp<type>Get<field>(self._constraint), or self._dsc.<field>.
getter(hs, self, prop) ==
    hs[self.constraint].fields[Accessor(self.cls, prop).field]

\* The native heap after the setter of self.prop ran with value v:
\* cp<type>Set<field>(self._constraint, v), or self._dsc.<field> = v.
setter(hs, self, prop, v) ==
    [hs EXCEPT ![self.constraint].fields[Accessor(self.cls, prop).field] = v]

\* Reading a property of a live object, while the program runs (the
\* module is torn down only at interpreter exit).
Get ==
    /\ cp_loaded
    /\ \E j \in {i \in JointIds : joints[i].state = "live"} :
       \E prop \in Props(joints[j].cls) :
          /\ LET acc == Accessor(joints[j].cls, prop)
                 h == joints[j].constraint
             IN  IF NativeOk(handles, h, acc) THEN
                     /\ jlast' = LastCall("get", j, prop, acc.route, "",
                                          getter(handles, joints[j], prop))
                     /\ UNCHANGED handles
                 ELSE
                     \* freed or mistyped handle: undefined behaviour
                     /\ \E r \in {0} \cup Vals :
                           jlast' = LastCall("get", j, prop, acc.route, "undefined", r)
                     /\ handles' = [handles EXCEPT ![h].stale =
                                       @ \/ (acc.route = "ffi" /\ handles[h].state = "freed")]
    /\ UNCHANGED <<cp_loaded, joints, body_constraints, n_sets, matVars, drawVars>>

\* Assigning a property of a live object.
Set ==
    /\ cp_loaded
    /\ n_sets < MaxSets
    /\ \E j \in {i \in JointIds : joints[i].state = "live"} :
       \E prop \in Props(joints[j].cls), v \in Vals :
          /\ LET acc == Accessor(joints[j].cls, prop)
                 h == joints[j].constraint
             IN  IF prop \in ReadOnlyProps THEN
                     /\ jlast' = LastCall("set", j, prop, acc.route, "AttributeError", v)
                     /\ UNCHANGED handles
                 ELSE IF NativeOk(handles, h, acc) THEN
                     /\ jlast' = LastCall("set", j, prop, acc.route, "", v)
                     /\ handles' = setter(handles, joints[j], prop, v)
                 ELSE
                     /\ jlast' = LastCall("set", j, prop, acc.route, "undefined", v)
                     /\ handles' = [handles EXCEPT ![h].stale =
                                       @ \/ (acc.route = "ffi" /\ handles[h].state = "freed")]
    /\ n_sets' = n_sets + 1
    /\ UNCHANGED <<cp_loaded, joints, body_constraints, matVars, drawVars>>

\* __del__ freeing the handle a second time.
del_twice(hs, self, loaded) ==
    IF loaded /\ self.constraint >= 0
    THEN cpConstraintFree(cpConstraintFree(hs, self.constraint), self.constraint)
    ELSE hs

\* Constraint.__del__: the native heap after it ran.  Without the
\* attribute _constraint (self.constraint = -1) it raises before the call.
__del__(hs, self, loaded) ==
    IF loaded /\ self.constraint >= 0
    THEN cpConstraintFree(hs, self.constraint)
    ELSE hs

\* The runtime finalises an object nothing refers to any more: __del__
\* runs once, and no method is called on the object afterwards.  Of the
\* object only the record of its handle and of whether the module was
\* loaded at the time is kept.
Destroy ==
    /\ \E j \in JointIds :
          /\ joints[j].state \in {"live", "failed"}
          /\ handles' = __del__(handles, joints[j], cp_loaded)
          /\ joints' = [joints EXCEPT ![j] =
                 [NoJoint EXCEPT !.state = "dead",
                                 !.constraint = joints[j].constraint,
                                 !.del_loaded = cp_loaded]]
          /\ body_constraints' = [x \in Bodies |-> body_constraints[x] \ {j}]
          /\ jlast' = LastCall("__del__", j, "", "", "", 0)
    /\ UNCHANGED <<cp_loaded, n_sets, matVars, drawVars>>

\* Interpreter shutdown: the module global cp becomes None.
Unload ==
    /\ cp_loaded
    /\ cp_loaded' = FALSE
    /\ jlast' = LastCall("unload", 0, "", "", "", 0)
    /\ UNCHANGED <<joints, handles, body_constraints, n_sets,
                   matVars, drawVars>>

JointNext ==
    \/ NewJoint \/ NewPivotJoint \/ NewConstraint
    \/ Get \/ Set \/ Destroy \/ Unload

InitJoint == MatIdle /\ DrawIdle /\ JointInit
SpecJoint == InitJoint /\ [][JointNext]_vars

\* C10: for every successfully constructed joint, destruction while the
\* native module is loaded calls cpConstraintFree exactly once, on the
\* handle its constructor created, and no foreign call reaches that handle
\* after it was freed: the handle is valid until freed.
C10_FreedOnceOnDestroy ==
    \A j \in JointIds :
        (joints[j].state \in {"live", "dead"} /\ joints[j].constraint \in HandleIds) =>
            LET h == joints[j].constraint
            IN  /\ \A i \in JointIds \ {j} : joints[i].constraint # h
                /\ joints[j].state = "live" =>
                       /\ joints[j].cls \in JointClasses
                       /\ handles[h].type = joints[j].cls
                       /\ handles[h].state = "valid" /\ handles[h].frees = 0
                /\ (joints[j].state = "dead" /\ joints[j].del_loaded) =>
                       handles[h].state = "freed" /\ handles[h].frees = 1
                /\ ~handles[h].stale

C10_Witness ==
    /\ joints[1].state = "dead" /\ joints[1].constraint \in HandleIds
    /\ joints[1].del_loaded
    /\ handles[joints[1].constraint].state = "freed"
    /\ handles[joints[1].constraint].frees = 1
    /\ n_sets > 0

\* ------------------------------------------- properties of live joints
\* The program constructs up to MaxPropJoints joints and assigns their
\* properties while all of them are alive.  A read leaves the native heap
\* as it is, so what a read returns after an assignment is getter applied
\* to the heap the assignment left.
PropsInit ==
    /\ cp_loaded = TRUE
    /\ joints = [j \in 1..MaxPropJoints |-> NoJoint]
    /\ handles = [h \in 1..MaxPropJoints |-> NoHandle]
    /\ body_constraints = [x \in Bodies |-> {}]
    /\ n_sets = 0
    /\ jlast = LastCall("", 0, "", "", "", 0)

PropsNext == NewJoint \/ NewPivotJoint \/ Set

InitProps == MatIdle /\ DrawIdle /\ PropsInit
SpecProps == InitProps /\ [][PropsNext]_vars

\* What every property of the object self reads from the native heap hs.
Reads(hs, self) == [q \in Props(self.cls) |-> getter(hs, self, q)]

C12_AccessOnlyByForeignCall ==
    (jlast.call \in {"get", "set"} /\ jlast.exc # "AttributeError") =>
        LET self == joints[jlast.obj]
            acc == Accessor(self.cls, jlast.prop)
        IN  /\ jlast.route = "ffi"
            /\ acc.route = "ffi"
            /\ acc.type \in {"Constraint", self.cls}
            /\ acc.field = Suffix(jlast.prop)
            /\ self.constraint \in HandleIds
            /\ handles[self.constraint].type = self.cls

====
